---- MODULE Spec2Model ----
(***************************************************************************)
(* Model of app2/video/video_run.py: the three-stage capture -> score ->   *)
(* graph pipeline that run_video_processes starts as three processes       *)
(* connected by two multiprocessing queues.                                *)
(*                                                                         *)
(* Time is discrete: the clock counts whole seconds, so the loop bound of  *)
(* capture_images (5 seconds) is 5 clock units, and a frame rate is        *)
(* represented by the pause it asks for, time_between_frame = 1/frame_rate *)
(* seconds, a whole number of clock units.                                 *)
(***************************************************************************)
EXTENDS Integers, Sequences, FiniteSets, TLC

\* video_run.py:18
FINISH == 1

\* video_run.py:62, the run duration in seconds
RunDuration == 5

\* largest pause between frames (1/frame_rate, in seconds) that is explored
MaxPeriod == 3

\* the pauses 1/frame_rate that are explored: frame_rate = 1/2, 1/3, ... per
\* second, so that a tick can be shorter than the pause without being instant
Periods == 2..MaxPeriod

\* the on-screen window lists CGWindowListCopyWindowInfo can return
Window(owner, name, number) == [owner |-> owner, name |-> name, number |-> number]

WindowLists ==
    { <<>>,
      <<Window("Finder", "Desktop", 3)>>,
      <<Window("zoom.us", "Zoom", 5)>>,
      <<Window("Finder", "Desktop", 3), Window("zoom.us", "Zoom Meeting", 7)>>,
      <<Window("zoom.us", "Zoom Meeting", 7), Window("zoom.us", "Zoom Meeting", 8)>> }

\* the pixel buffers the screen can show
Pixels == {"sharp", "corrupt"}

\* image_score.MetricType: the fixed set of metrics
MetricType == {"sharpness", "noise"}

\* image_score.get_no_ref_score raises ValueError on a buffer it cannot score
ScoreRaises(image_data) == image_data = "corrupt"

\* image_score.get_no_ref_score: a pure function of the buffer and the metric
get_no_ref_score(image_data, metric_type) ==
    IF metric_type = "sharpness" THEN (IF image_data = "sharp" THEN 9 ELSE 0)
    ELSE (IF image_data = "sharp" THEN 2 ELSE 0)

VARIABLES
    clock,               \* datetime.now(), in seconds
    pc_main,             \* position of run_video_processes
    pc_capture,          \* position of capture_images (process_capture)
    pc_analysis,         \* position of compute_metrics (process_analysis)
    pc_graph,            \* position of graph_metrics (process_graph)
    packet_queue,        \* Channel A
    metrics_queue,       \* Channel B
    time_between_frame,  \* capture_images local
    window_num,          \* capture_images local
    capture_start_time,  \* capture_images local
    image_start_time,    \* capture_images local
    raw_data,            \* capture_images local
    wake_time,           \* the time at which time.sleep may return
    res,                 \* compute_metrics local: the item it pulled
    times,               \* graph_metrics local: the timeline's timestamps
    image_scores,        \* graph_metrics local: per metric, the list of scores
    putA,                \* history: every item put on packet_queue, in order
    putB,                \* history: every item put on metrics_queue, in order
    dropped,             \* history: frames whose scoring raised
    backlog,             \* history: frames queued in packet_queue when FINISH was put on it
    rendered,            \* history: number of times the figure was saved
    loop_check_time,     \* history: the clock reading of the last loop test of capture_images
    slow_ticks           \* history: ticks whose work took 1/frame_rate or longer

vars == <<clock, pc_main, pc_capture, pc_analysis, pc_graph, packet_queue,
          metrics_queue, time_between_frame, window_num, capture_start_time,
          image_start_time, raw_data, wake_time, res, times, image_scores,
          putA, putB, dropped, backlog, rendered, loop_check_time, slow_ticks>>

capture_vars == <<time_between_frame, window_num, capture_start_time,
                  image_start_time, raw_data, wake_time, loop_check_time,
                  slow_ticks>>
analysis_vars == <<res, dropped>>
graph_vars == <<times, image_scores, rendered>>

----
\* The items that travel on the queues.

\* the int FINISH
Sentinel == [type |-> "int", val |-> FINISH]

\* the tuple (image_start_time, raw_data)
Frame(t, d) == [type |-> "tuple", time |-> t, data |-> d]

\* VideoMetrics(time=..., metrics=...)
VideoMetrics(t, m) == [type |-> "VideoMetrics", time |-> t, metrics |-> m]

\* a local that holds nothing yet
None == [type |-> "NoneType"]

\* a test by truthiness: every item that is not empty passes
IsFinish_Truthy(item) == item.type \in {"int", "tuple", "VideoMetrics"}

\* the test `type(res) == int and res == FINISH`
IsFinish(item) == item.type = "int" /\ item.val = FINISH

\* the frames among a sequence of queue items
FramesOf(items) == SelectSeq(items, LAMBDA item : item.type = "tuple")

\* a queue that hands out the newest item first
QueuePut_Front(q, item) == <<item>> \o q

\* multiprocessing.Queue.put on a queue without maxsize: never blocks, appends
QueuePut(q, item) == Append(q, item)

\* multiprocessing.Queue.get(block=True): the oldest item; blocks while empty
QueueCanGet(q) == Len(q) > 0
QueueHead(q) == Head(q)
QueueRest(q) == Tail(q)

\* a comprehension that leaves one metric out
ComputeScores_SkipsOne(image_data) ==
    [metric_type \in MetricType \ {"noise"} |-> get_no_ref_score(image_data, metric_type)]

\* the dict comprehension of compute_metrics: one score per MetricType
ComputeScores(image_data) ==
    [metric_type \in MetricType |-> get_no_ref_score(image_data, metric_type)]

----
Init ==
    /\ clock = 0
    /\ pc_main = "start_capture"
    /\ pc_capture = "unstarted"
    /\ pc_analysis = "unstarted"
    /\ pc_graph = "unstarted"
    /\ packet_queue = <<>>
    /\ metrics_queue = <<>>
    /\ time_between_frame \in Periods
    /\ window_num = 0
    /\ capture_start_time = 0
    /\ image_start_time = 0
    /\ raw_data = "none"
    /\ wake_time = 0
    /\ res = None
    /\ times = <<>>
    /\ image_scores = [metric_type \in MetricType |-> <<>>]
    /\ putA = <<>>
    /\ putB = <<>>
    /\ dropped = 0
    /\ backlog = 0
    /\ rendered = 0
    /\ loop_check_time = 0
    /\ slow_ticks = 0

----
\* run_video_processes

MainStartCapture ==
    /\ pc_main = "start_capture"
    /\ pc_main' = "start_analysis"
    /\ pc_capture' = "begin"
    /\ UNCHANGED <<clock, pc_analysis, pc_graph, packet_queue, metrics_queue,
                   capture_vars, analysis_vars, graph_vars, putA, putB, backlog>>

MainStartAnalysis ==
    /\ pc_main = "start_analysis"
    /\ pc_main' = "start_graph"
    /\ pc_analysis' = "get"
    /\ UNCHANGED <<clock, pc_capture, pc_graph, packet_queue, metrics_queue,
                   capture_vars, analysis_vars, graph_vars, putA, putB, backlog>>

MainStartGraph ==
    /\ pc_main = "start_graph"
    /\ pc_main' = "join_capture"
    /\ pc_graph' = "begin"
    /\ UNCHANGED <<clock, pc_capture, pc_analysis, packet_queue, metrics_queue,
                   capture_vars, analysis_vars, graph_vars, putA, putB, backlog>>

\* Process.join returns once the process has exited, normally or by an exception
Exited(pc) == pc \in {"done", "crashed"}

MainJoinCapture ==
    /\ pc_main = "join_capture"
    /\ Exited(pc_capture)
    /\ pc_main' = "join_analysis"
    /\ UNCHANGED <<clock, pc_capture, pc_analysis, pc_graph, packet_queue,
                   metrics_queue, capture_vars, analysis_vars, graph_vars,
                   putA, putB, backlog>>

MainJoinAnalysis ==
    /\ pc_main = "join_analysis"
    /\ Exited(pc_analysis)
    /\ pc_main' = "join_graph"
    /\ UNCHANGED <<clock, pc_capture, pc_analysis, pc_graph, packet_queue,
                   metrics_queue, capture_vars, analysis_vars, graph_vars,
                   putA, putB, backlog>>

\* a join that returns while the process is still running
MainJoinGraph_NoWait ==
    /\ pc_main = "join_graph"
    /\ pc_main' = "returned"
    /\ UNCHANGED <<clock, pc_capture, pc_analysis, pc_graph, packet_queue,
                   metrics_queue, capture_vars, analysis_vars, graph_vars,
                   putA, putB, backlog>>

MainJoinGraph ==
    /\ pc_main = "join_graph"
    /\ Exited(pc_graph)
    /\ pc_main' = "returned"
    /\ UNCHANGED <<clock, pc_capture, pc_analysis, pc_graph, packet_queue,
                   metrics_queue, capture_vars, analysis_vars, graph_vars,
                   putA, putB, backlog>>

----
\* get_zoom_window_id: the number of the first Zoom Meeting window, else -1

IsZoomMeeting(win) == win.owner = "zoom.us" /\ win.name = "Zoom Meeting"

get_zoom_window_id(windows) ==
    IF \E i \in 1..Len(windows) : IsZoomMeeting(windows[i])
    THEN LET first == CHOOSE i \in 1..Len(windows) :
                        /\ IsZoomMeeting(windows[i])
                        /\ \A j \in 1..(i - 1) : ~IsZoomMeeting(windows[j])
         IN  windows[first].number
    ELSE -1

----
\* The clock.  Time passes while capture_images is running; it is not read by
\* any other stage.  It stops once the run duration is exceeded and nobody
\* sleeps, which keeps the timestamps bounded.

CaptureRunning == pc_capture \in {"loop", "tick", "acquire", "tick_end", "sleep"}

Tick ==
    /\ CaptureRunning
    /\ \/ clock <= capture_start_time + RunDuration
       \/ pc_capture = "sleep" /\ clock < wake_time
    /\ clock' = clock + 1
    /\ UNCHANGED <<pc_main, pc_capture, pc_analysis, pc_graph, packet_queue,
                   metrics_queue, capture_vars, analysis_vars, graph_vars,
                   putA, putB, backlog>>

----
\* capture_images

\* lines 57-61: resolve the window, compute the pause, record the start time
CaptureBegin ==
    /\ pc_capture = "begin"
    /\ \E windows \in WindowLists : window_num' = get_zoom_window_id(windows)
    /\ capture_start_time' = clock
    /\ pc_capture' = "loop"
    /\ UNCHANGED <<clock, pc_main, pc_analysis, pc_graph, packet_queue,
                   metrics_queue, time_between_frame, image_start_time,
                   raw_data, wake_time, loop_check_time, slow_ticks,
                   analysis_vars, graph_vars, putA, putB, backlog>>

\* a loop that stops two seconds early
CaptureLoopCheck_ShortRun ==
    /\ pc_capture = "loop"
    /\ pc_capture' = IF clock - capture_start_time <= RunDuration - 2
                     THEN "tick" ELSE "finish"
    /\ loop_check_time' = clock
    /\ UNCHANGED <<clock, pc_main, pc_analysis, pc_graph, packet_queue,
                   metrics_queue, time_between_frame, window_num,
                   capture_start_time, image_start_time, raw_data, wake_time,
                   slow_ticks, analysis_vars, graph_vars, putA, putB, backlog>>

\* a loop test with < in place of <=
CaptureLoopCheck_Strict ==
    /\ pc_capture = "loop"
    /\ pc_capture' = IF clock - capture_start_time < RunDuration
                     THEN "tick" ELSE "finish"
    /\ loop_check_time' = clock
    /\ UNCHANGED <<clock, pc_main, pc_analysis, pc_graph, packet_queue,
                   metrics_queue, time_between_frame, window_num,
                   capture_start_time, image_start_time, raw_data, wake_time,
                   slow_ticks, analysis_vars, graph_vars, putA, putB, backlog>>

\* line 62: the loop test
CaptureLoopCheck ==
    /\ pc_capture = "loop"
    /\ pc_capture' = IF clock - capture_start_time <= RunDuration
                     THEN "tick" ELSE "finish"
    /\ loop_check_time' = clock
    /\ UNCHANGED <<clock, pc_main, pc_analysis, pc_graph, packet_queue,
                   metrics_queue, time_between_frame, window_num,
                   capture_start_time, image_start_time, raw_data, wake_time,
                   slow_ticks, analysis_vars, graph_vars, putA, putB, backlog>>

\* line 63: image_start_time = datetime.now()
CaptureTickStart ==
    /\ pc_capture = "tick"
    /\ image_start_time' = clock
    /\ pc_capture' = "acquire"
    /\ UNCHANGED <<clock, pc_main, pc_analysis, pc_graph, packet_queue,
                   metrics_queue, time_between_frame, window_num,
                   capture_start_time, raw_data, wake_time, loop_check_time,
                   slow_ticks, analysis_vars, graph_vars, putA, putB, backlog>>

\* line 64: capture_image raises (no image for the window); capture_images has
\* no handler, so the exception ends the process before anything is put
CaptureAcquireFails ==
    /\ pc_capture = "acquire"
    /\ pc_capture' = "crashed"
    /\ UNCHANGED <<clock, pc_main, pc_analysis, pc_graph, packet_queue,
                   metrics_queue, capture_vars, analysis_vars, graph_vars,
                   putA, putB, backlog>>

\* a put on a queue of capacity 2: it waits while the queue is full
CaptureAcquirePut_Bounded ==
    /\ pc_capture = "acquire"
    /\ Len(packet_queue) < 2
    /\ \E image_data \in Pixels :
         /\ raw_data' = image_data
         /\ packet_queue' = QueuePut(packet_queue, Frame(image_start_time, image_data))
         /\ putA' = Append(putA, Frame(image_start_time, image_data))
    /\ pc_capture' = "tick_end"
    /\ UNCHANGED <<clock, pc_main, pc_analysis, pc_graph, metrics_queue,
                   time_between_frame, window_num, capture_start_time,
                   image_start_time, wake_time, loop_check_time, slow_ticks,
                   analysis_vars, graph_vars, putB, backlog>>

\* lines 64-65: capture_image returns the pixels of the window and
\* data_queue.put((image_start_time, raw_data)) appends the frame
CaptureAcquirePut ==
    /\ pc_capture = "acquire"
    /\ \E image_data \in Pixels :
         /\ raw_data' = image_data
         /\ packet_queue' = QueuePut(packet_queue, Frame(image_start_time, image_data))
         /\ putA' = Append(putA, Frame(image_start_time, image_data))
    /\ pc_capture' = "tick_end"
    /\ UNCHANGED <<clock, pc_main, pc_analysis, pc_graph, metrics_queue,
                   time_between_frame, window_num, capture_start_time,
                   image_start_time, wake_time, loop_check_time, slow_ticks,
                   analysis_vars, graph_vars, putB, backlog>>

\* a pause that is one second too short
CaptureTickEnd_ShortSleep ==
    /\ pc_capture = "tick_end"
    /\ LET image_finish_time == clock
           diff == image_finish_time - image_start_time
       IN  IF diff < time_between_frame - 1
           THEN /\ wake_time' = clock + (time_between_frame - diff - 1)
                /\ pc_capture' = "sleep"
                /\ slow_ticks' = slow_ticks
           ELSE /\ wake_time' = wake_time
                /\ pc_capture' = "loop"
                /\ slow_ticks' = slow_ticks + 1
    /\ UNCHANGED <<clock, pc_main, pc_analysis, pc_graph, packet_queue,
                   metrics_queue, time_between_frame, window_num,
                   capture_start_time, image_start_time, raw_data,
                   loop_check_time, analysis_vars, graph_vars, putA, putB,
                   backlog>>

\* lines 66-70: measure the tick and sleep for the slack, if any
CaptureTickEnd ==
    /\ pc_capture = "tick_end"
    /\ LET image_finish_time == clock
           diff == image_finish_time - image_start_time
       IN  IF diff < time_between_frame
           THEN /\ wake_time' = clock + (time_between_frame - diff)
                /\ pc_capture' = "sleep"
                /\ slow_ticks' = slow_ticks
           ELSE /\ wake_time' = wake_time
                /\ pc_capture' = "loop"
                /\ slow_ticks' = slow_ticks + 1
    /\ UNCHANGED <<clock, pc_main, pc_analysis, pc_graph, packet_queue,
                   metrics_queue, time_between_frame, window_num,
                   capture_start_time, image_start_time, raw_data,
                   loop_check_time, analysis_vars, graph_vars, putA, putB,
                   backlog>>

\* line 70: time.sleep returns, no earlier than asked
CaptureWake ==
    /\ pc_capture = "sleep"
    /\ clock >= wake_time
    /\ pc_capture' = "loop"
    /\ UNCHANGED <<clock, pc_main, pc_analysis, pc_graph, packet_queue,
                   metrics_queue, capture_vars, analysis_vars, graph_vars,
                   putA, putB, backlog>>

\* lines 71-73: put FINISH, close the queue, return
CaptureFinish ==
    /\ pc_capture = "finish"
    /\ packet_queue' = QueuePut(packet_queue, Sentinel)
    /\ putA' = Append(putA, Sentinel)
    /\ backlog' = Len(FramesOf(packet_queue))
    /\ pc_capture' = "done"
    /\ UNCHANGED <<clock, pc_main, pc_analysis, pc_graph, metrics_queue,
                   capture_vars, analysis_vars, graph_vars, putB>>

----
\* compute_metrics

\* a stage that drains the queue and keeps only the newest item
AnalysisGet_TakesNewest ==
    /\ pc_analysis = "get"
    /\ QueueCanGet(packet_queue)
    /\ res' = packet_queue[Len(packet_queue)]
    /\ packet_queue' = <<>>
    /\ pc_analysis' = IF IsFinish(packet_queue[Len(packet_queue)])
                      THEN "forward" ELSE "score"
    /\ UNCHANGED <<clock, pc_main, pc_capture, pc_graph, metrics_queue,
                   capture_vars, dropped, graph_vars, putA, putB, backlog>>

\* a stage that does not wait: an empty queue is taken for the end of the stream
AnalysisGet_ForwardsOnEmpty ==
    /\ pc_analysis = "get"
    /\ IF QueueCanGet(packet_queue)
       THEN /\ res' = QueueHead(packet_queue)
            /\ packet_queue' = QueueRest(packet_queue)
            /\ pc_analysis' = IF IsFinish(QueueHead(packet_queue))
                              THEN "forward" ELSE "score"
       ELSE /\ res' = res
            /\ packet_queue' = packet_queue
            /\ pc_analysis' = "forward"
    /\ UNCHANGED <<clock, pc_main, pc_capture, pc_graph, metrics_queue,
                   capture_vars, dropped, graph_vars, putA, putB, backlog>>

\* a get that reads the oldest item and leaves it on the queue
AnalysisGet_Peeks ==
    /\ pc_analysis = "get"
    /\ QueueCanGet(packet_queue)
    /\ res' = QueueHead(packet_queue)
    /\ packet_queue' = packet_queue
    /\ pc_analysis' = IF IsFinish(QueueHead(packet_queue)) THEN "forward" ELSE "score"
    /\ UNCHANGED <<clock, pc_main, pc_capture, pc_graph, metrics_queue,
                   capture_vars, dropped, graph_vars, putA, putB, backlog>>

\* lines 79-82: pull one item; FINISH leaves the loop, a frame is unpacked
AnalysisGet ==
    /\ pc_analysis = "get"
    /\ QueueCanGet(packet_queue)
    /\ res' = QueueHead(packet_queue)
    /\ packet_queue' = QueueRest(packet_queue)
    /\ pc_analysis' = IF IsFinish(QueueHead(packet_queue)) THEN "forward" ELSE "score"
    /\ UNCHANGED <<clock, pc_main, pc_capture, pc_graph, metrics_queue,
                   capture_vars, dropped, graph_vars, putA, putB, backlog>>

\* a stage that stamps the record with its own clock reading
AnalysisScore_OwnClock ==
    /\ pc_analysis = "score"
    /\ ~ScoreRaises(res.data)
    /\ LET metric_record == VideoMetrics(clock, ComputeScores(res.data))
       IN  /\ metrics_queue' = QueuePut(metrics_queue, metric_record)
           /\ putB' = Append(putB, metric_record)
    /\ pc_analysis' = "get"
    /\ UNCHANGED <<clock, pc_main, pc_capture, pc_graph, packet_queue,
                   capture_vars, analysis_vars, graph_vars, putA, backlog>>

\* lines 83-87: score the frame for every metric and put the record
AnalysisScore ==
    /\ pc_analysis = "score"
    /\ ~ScoreRaises(res.data)
    /\ LET metric_record == VideoMetrics(res.time, ComputeScores(res.data))
       IN  /\ metrics_queue' = QueuePut(metrics_queue, metric_record)
           /\ putB' = Append(putB, metric_record)
    /\ pc_analysis' = "get"
    /\ UNCHANGED <<clock, pc_main, pc_capture, pc_graph, packet_queue,
                   capture_vars, analysis_vars, graph_vars, putA, backlog>>

\* lines 88-90: a ValueError from scoring is printed and leaves the loop
AnalysisScoreRaises ==
    /\ pc_analysis = "score"
    /\ ScoreRaises(res.data)
    /\ dropped' = dropped + 1
    /\ pc_analysis' = "forward"
    /\ UNCHANGED <<clock, pc_main, pc_capture, pc_graph, packet_queue,
                   metrics_queue, capture_vars, res, graph_vars, putA, putB,
                   backlog>>

\* a stage that returns without forwarding FINISH
AnalysisForward_NoSentinel ==
    /\ pc_analysis = "forward"
    /\ pc_analysis' = "done"
    /\ UNCHANGED <<clock, pc_main, pc_capture, pc_graph, packet_queue,
                   metrics_queue, capture_vars, analysis_vars, graph_vars,
                   putA, putB, backlog>>

\* lines 91-92: result_queue.put(FINISH), return
AnalysisForward ==
    /\ pc_analysis = "forward"
    /\ metrics_queue' = QueuePut(metrics_queue, Sentinel)
    /\ putB' = Append(putB, Sentinel)
    /\ pc_analysis' = "done"
    /\ UNCHANGED <<clock, pc_main, pc_capture, pc_graph, packet_queue,
                   capture_vars, analysis_vars, graph_vars, putA, backlog>>

----
\* graph_metrics

\* lines 96-99: the empty timeline
GraphBegin ==
    /\ pc_graph = "begin"
    /\ times' = <<>>
    /\ image_scores' = [metric_type \in MetricType |-> <<>>]
    /\ pc_graph' = "get"
    /\ UNCHANGED <<clock, pc_main, pc_capture, pc_analysis, packet_queue,
                   metrics_queue, capture_vars, analysis_vars, rendered,
                   putA, putB, backlog>>

\* a sink that also takes an empty queue for the end of the stream
GraphGetFinish_OnEmpty ==
    /\ pc_graph = "get"
    /\ \/ ~QueueCanGet(metrics_queue) /\ metrics_queue' = metrics_queue
       \/ /\ QueueCanGet(metrics_queue)
          /\ IsFinish(QueueHead(metrics_queue))
          /\ metrics_queue' = QueueRest(metrics_queue)
    /\ pc_graph' = "plot"
    /\ UNCHANGED <<clock, pc_main, pc_capture, pc_analysis, packet_queue,
                   capture_vars, analysis_vars, graph_vars, putA, putB, backlog>>

\* a sink that takes whatever item it pulls for the end of the stream
GraphGetFinish_AnyItem ==
    /\ pc_graph = "get"
    /\ QueueCanGet(metrics_queue)
    /\ metrics_queue' = QueueRest(metrics_queue)
    /\ pc_graph' = "plot"
    /\ UNCHANGED <<clock, pc_main, pc_capture, pc_analysis, packet_queue,
                   capture_vars, analysis_vars, graph_vars, putA, putB, backlog>>

\* lines 102-104: pull FINISH and leave the loop
GraphGetFinish ==
    /\ pc_graph = "get"
    /\ QueueCanGet(metrics_queue)
    /\ IsFinish(QueueHead(metrics_queue))
    /\ metrics_queue' = QueueRest(metrics_queue)
    /\ pc_graph' = "plot"
    /\ UNCHANGED <<clock, pc_main, pc_capture, pc_analysis, packet_queue,
                   capture_vars, analysis_vars, graph_vars, putA, putB, backlog>>

\* lines 102-107: pull a record, append its time and one score per metric;
\* a record without a score for some metric raises KeyError at line 107,
\* which `except ValueError` does not catch
GraphGetRecord ==
    /\ pc_graph = "get"
    /\ QueueCanGet(metrics_queue)
    /\ ~IsFinish(QueueHead(metrics_queue))
    /\ LET metric_record == QueueHead(metrics_queue)
       IN  /\ times' = Append(times, metric_record.time)
           /\ IF MetricType \subseteq DOMAIN metric_record.metrics
              THEN /\ image_scores' =
                        [metric_type \in MetricType |->
                            Append(image_scores[metric_type],
                                   metric_record.metrics[metric_type])]
                   /\ pc_graph' = "get"
              ELSE /\ image_scores' = image_scores
                   /\ pc_graph' = "crashed"
    /\ metrics_queue' = QueueRest(metrics_queue)
    /\ UNCHANGED <<clock, pc_main, pc_capture, pc_analysis, packet_queue,
                   capture_vars, analysis_vars, rendered, putA, putB, backlog>>

\* lines 112-135: plot the timeline and save the figure
GraphPlot ==
    /\ pc_graph = "plot"
    /\ rendered' = rendered + 1
    /\ pc_graph' = "done"
    /\ UNCHANGED <<clock, pc_main, pc_capture, pc_analysis, packet_queue,
                   metrics_queue, capture_vars, analysis_vars, times,
                   image_scores, putA, putB, backlog>>

----
Next ==
    \/ MainStartCapture
    \/ MainStartAnalysis
    \/ MainStartGraph
    \/ MainJoinCapture
    \/ MainJoinAnalysis
    \/ MainJoinGraph
    \/ Tick
    \/ CaptureBegin
    \/ CaptureLoopCheck
    \/ CaptureTickStart
    \/ CaptureAcquireFails
    \/ CaptureAcquirePut
    \/ CaptureTickEnd
    \/ CaptureWake
    \/ CaptureFinish
    \/ AnalysisGet
    \/ AnalysisScore
    \/ AnalysisScoreRaises
    \/ AnalysisForward
    \/ GraphBegin
    \/ GraphGetFinish
    \/ GraphGetRecord
    \/ GraphPlot

Spec == Init /\ [][Next]_vars

----
\* Fair scheduling: the operating system runs every process that can take a
\* step, and time passes.  No fairness is assumed for failures.

MainStep ==
    \/ MainStartCapture
    \/ MainStartAnalysis
    \/ MainStartGraph
    \/ MainJoinCapture
    \/ MainJoinAnalysis
    \/ MainJoinGraph

CaptureStep ==
    \/ CaptureBegin
    \/ CaptureLoopCheck
    \/ CaptureTickStart
    \/ CaptureAcquirePut
    \/ CaptureTickEnd
    \/ CaptureWake
    \/ CaptureFinish

AnalysisStep ==
    \/ AnalysisGet
    \/ AnalysisScore
    \/ AnalysisScoreRaises
    \/ AnalysisForward

GraphStep ==
    \/ GraphBegin
    \/ GraphGetFinish
    \/ GraphGetRecord
    \/ GraphPlot

Fairness ==
    /\ WF_vars(MainStep)
    /\ WF_vars(CaptureStep)
    /\ WF_vars(AnalysisStep)
    /\ WF_vars(GraphStep)
    /\ WF_vars(Tick)

FairSpec == Spec /\ Fairness

\* Scheduling that is fair to run_video_processes, to capture_images and to
\* the clock only: scoring and the sink may run or never take a step.
CaptureFairness ==
    /\ WF_vars(MainStep)
    /\ WF_vars(CaptureStep)
    /\ WF_vars(Tick)

CaptureFairSpec == Spec /\ CaptureFairness

----
\* Ways a run can go wrong

\* capture_image raised in some tick
AcquisitionFailed == pc_capture = "crashed"

\* get_no_ref_score raised for some frame
ScoringRaised == dropped > 0

AllStopped ==
    /\ pc_capture = "done"
    /\ pc_analysis = "done"
    /\ pc_graph = "done"
    /\ pc_main = "returned"

----
\* What the histories say

\* the capture timestamps of the frames put on Channel A, in order
FrameTimes == [i \in 1..Len(FramesOf(putA)) |-> FramesOf(putA)[i].time]

\* the records put on Channel B, in order
RecordsOf(items) == SelectSeq(items, LAMBDA item : item.type = "VideoMetrics")

\* how many times FINISH was put
CountFinish(items) == Len(SelectSeq(items, IsFinish))

\* FINISH, if put, is the last item put
FinishIsLast(items) ==
    \A i \in 1..Len(items) : IsFinish(items[i]) => i = Len(items)

\* the start times of the ticks so far: one per frame put, and the tick that
\* has started and not put its frame (yet, or ever)
TickStarts ==
    FrameTimes \o (IF pc_capture \in {"acquire", "crashed"}
                   THEN <<image_start_time>> ELSE <<>>)

----
\* C1: in every run FINISH is put exactly once on Channel A and exactly once
\* on Channel B, and nothing is put on a channel after it: once the stage that
\* writes a channel has ended, the channel has had one FINISH, and it is last.
C1_SentinelOnceLast ==
    /\ FinishIsLast(putA)
    /\ FinishIsLast(putB)
    /\ CountFinish(putA) <= 1
    /\ CountFinish(putB) <= 1
    /\ Exited(pc_capture) => CountFinish(putA) = 1
    /\ Exited(pc_analysis) => CountFinish(putB) = 1

\* C2: under fair scheduling a run without errors terminates: capture puts
\* FINISH and stops, scoring pulls it, forwards it and stops, the sink pulls
\* it, renders and stops, and run_video_processes returns from its joins.
C2_Terminates ==
    <>(AcquisitionFailed \/ ScoringRaised
       \/ (/\ AllStopped
           /\ rendered = 1
           /\ CountFinish(putA) = 1 /\ packet_queue = <<>>
           /\ CountFinish(putB) = 1 /\ metrics_queue = <<>>))

C2_Witness ==
    /\ AllStopped
    /\ ~ScoringRaised
    /\ rendered = 1
    /\ Len(times) >= 2

\* C3: the timeline lists the frames' timestamps in the order capture put
\* them on Channel A, and the timestamps never decrease.
C3_TimelineInCaptureOrder ==
    /\ Len(times) <= Len(FrameTimes)
    /\ \A i \in 1..Len(times) : times[i] = FrameTimes[i]
    /\ \A i \in 1..(Len(times) - 1) : times[i] <= times[i + 1]

C3_Witness ==
    /\ pc_graph = "done"
    /\ Len(times) >= 3
    /\ times[1] < times[2]

\* C4: when scoring never raised and the sink has pulled FINISH, the timeline
\* has exactly one entry for every frame capture put on Channel A before
\* FINISH: same number, same frames in the same places, none twice, and
\* nothing is left in either channel.
C4_NoFrameLost ==
    (pc_graph \in {"plot", "done"} /\ ~ScoringRaised) =>
        /\ CountFinish(putA) = 1
        /\ times = FrameTimes
        /\ Len(RecordsOf(putB)) = Len(FramesOf(putA))
        /\ packet_queue = <<>>
        /\ metrics_queue = <<>>

C4_Witness ==
    /\ pc_graph = "done"
    /\ ~ScoringRaised
    /\ backlog >= 2
    /\ Len(times) >= 2

\* C5: when scoring raises for one frame, only that frame is missing from the
\* final timeline: N frames put, one scoring error, N - 1 entries, and the
\* scoring stage has pulled every frame.
C5_DropsOnlyBadFrame ==
    (pc_capture = "done" /\ pc_graph = "done" /\ dropped = 1) =>
        /\ Len(times) = Len(FramesOf(putA)) - 1
        /\ FramesOf(packet_queue) = <<>>

\* C6: a stage that an error has ended has still put FINISH on its output
\* channel, so the stage after it is not left waiting.
C6_ErrorStillForwardsSentinel ==
    /\ AcquisitionFailed => CountFinish(putA) = 1
    /\ (ScoringRaised /\ pc_analysis = "done") => CountFinish(putB) = 1

\* C7: when get_zoom_window_id finds no Zoom Meeting window (-1), the run
\* stops before the capture loop: the loop body is never entered, nothing is
\* put on either channel, and no timeline is built or rendered.
C7_NotFoundAborts ==
    (pc_capture \notin {"unstarted", "begin"} /\ window_num = -1) =>
        /\ pc_capture \notin {"tick", "acquire", "tick_end", "sleep", "finish", "done"}
        /\ putA = <<>>
        /\ putB = <<>>
        /\ pc_graph \in {"unstarted", "begin"}
        /\ rendered = 0

\* C8: a tick whose acquisition fails puts nothing and capture goes on with
\* the rest of the tick: the failure never ends the capture stage.
C8_FailedTickIsSkipped ==
    [][CaptureAcquireFails => (pc_capture' = "tick_end" /\ putA' = putA)]_vars

\* C9: every record put on Channel B has a score for exactly the metrics of
\* MetricType, the score of its frame, and the sink holds one value per
\* metric for every record it has appended.
C9_OneScorePerMetric ==
    /\ \A i \in 1..Len(RecordsOf(putB)) :
         /\ DOMAIN RecordsOf(putB)[i].metrics = MetricType
         /\ \A metric_type \in MetricType :
              RecordsOf(putB)[i].metrics[metric_type] =
                 get_no_ref_score(FramesOf(putA)[i].data, metric_type)
    /\ DOMAIN image_scores = MetricType
    /\ \A metric_type \in MetricType :
         Len(image_scores[metric_type]) = Len(times)

C9_Witness ==
    /\ pc_graph = "done"
    /\ Len(RecordsOf(putB)) >= 2
    /\ Len(times) = Len(RecordsOf(putB))

\* C10: two consecutive ticks start at least 1/frame_rate apart; a tick
\* shorter than that sleeps until 1/frame_rate after its start.
C10_PacingNeverFaster ==
    /\ \A i \in 1..(Len(TickStarts) - 1) :
         TickStarts[i + 1] - TickStarts[i] >= time_between_frame
    /\ pc_capture = "sleep" => wake_time = image_start_time + time_between_frame

C10_Witness ==
    /\ Len(TickStarts) >= 3
    /\ TickStarts[2] - TickStarts[1] = time_between_frame
    /\ TickStarts[3] - TickStarts[2] > time_between_frame


\* the timestamps of the records put on Channel B, in order
RecordTimes == [i \in 1..Len(RecordsOf(putB)) |-> RecordsOf(putB)[i].time]

\* C11: run_video_processes has returned only if capture, scoring and the
\* sink have all ended, with the figure saved at most once and nothing left
\* for the sink to pull: it never returns while a stage can still run.
C11_ReturnsAfterAllStages ==
    pc_main = "returned" =>
        /\ Exited(pc_capture)
        /\ Exited(pc_analysis)
        /\ Exited(pc_graph)
        /\ metrics_queue = <<>>
        /\ times = RecordTimes
        /\ ~ENABLED (CaptureStep \/ AnalysisStep \/ GraphStep)

C11_Witness ==
    /\ pc_main = "returned"
    /\ rendered = 1
    /\ Len(times) >= 2

\* C12: the sink saves the figure at most once, and only after it has pulled
\* FINISH from Channel B; from then on the timeline holds every record that
\* was put on Channel B and the sink pulls nothing more.
C12_RenderOnceAfterSentinel ==
    /\ rendered <= 1
    /\ rendered = 1 <=> pc_graph = "done"
    /\ pc_graph \in {"plot", "done"} =>
         /\ CountFinish(putB) = 1
         /\ metrics_queue = <<>>
         /\ times = RecordTimes
         /\ \A metric_type \in MetricType :
              Len(image_scores[metric_type]) = Len(RecordsOf(putB))
         /\ ~ENABLED (GraphGetRecord \/ GraphGetFinish)

C12_Witness ==
    /\ pc_graph = "done"
    /\ rendered = 1
    /\ Len(RecordsOf(putB)) >= 2


\* the frame source returns the same buffer on every tick
ConstantFrames ==
    \A i, j \in 1..Len(FramesOf(putA)) :
        FramesOf(putA)[i].data = FramesOf(putA)[j].data

\* every entry of the timeline has the same scores
IdenticalScores ==
    \A metric_type \in MetricType :
        \A i, j \in 1..Len(image_scores[metric_type]) :
            image_scores[metric_type][i] = image_scores[metric_type][j]

\* n entries are within one of frame_rate * run_duration = RunDuration / pause
WithinOneOfRateTimesDuration(n) ==
    /\ n * time_between_frame - RunDuration <= time_between_frame
    /\ RunDuration - n * time_between_frame <= time_between_frame

\* no scheduling or sleep delay: the first tick starts at the start of the
\* run, every tick 1/frame_rate after the one before, and the loop test that
\* ends the run is made 1/frame_rate after the last tick started
ExactPacing ==
    /\ \A i \in 1..Len(TickStarts) :
         TickStarts[i] = capture_start_time + (i - 1) * time_between_frame
    /\ loop_check_time = capture_start_time + Len(TickStarts) * time_between_frame

ScoredFrames ==
    LET frames == FramesOf(putA)
        bad == {i \in 1..Len(frames) : ScoreRaises(frames[i].data)}
        stop == IF bad = {} THEN Len(frames) + 1
                ELSE CHOOSE i \in bad : \A j \in bad : i <= j
    IN  SubSeq(frames, 1, stop - 1)

\* the timestamps of the run of a source that returns "sharp" on every tick
\* when no tick is delayed
ReferenceTimes ==
    [i \in 1..((RunDuration \div time_between_frame) + 1) |->
        capture_start_time + (i - 1) * time_between_frame]

\* C14 as stated: every run with the same frame source (here the one that
\* returns "sharp" on every tick) and the same scoring function ends with the
\* same timeline, so with the timeline of the run C14_Witness reaches.
C14_SameTimelineEveryRun ==
    (/\ pc_graph = "done"
     /\ pc_capture = "done"
     /\ \A i \in 1..Len(FramesOf(putA)) : FramesOf(putA)[i].data = "sharp") =>
        /\ times = ReferenceTimes
        /\ \A metric_type \in MetricType :
             image_scores[metric_type] =
                [i \in 1..Len(ReferenceTimes) |-> get_no_ref_score("sharp", metric_type)]

\* C14 amended: the final timeline is a function of what capture put on
\* Channel A alone (the frames and the clock readings they carry), whatever
\* the interleaving of the stages: the timestamps and the scores of the
\* frames put before the first one scoring raises on, in that order.
C14_TimelineDeterminedByCapture ==
    pc_graph = "done" =>
        /\ times = [i \in 1..Len(ScoredFrames) |-> ScoredFrames[i].time]
        /\ \A metric_type \in MetricType :
             image_scores[metric_type] =
                [i \in 1..Len(ScoredFrames) |->
                    get_no_ref_score(ScoredFrames[i].data, metric_type)]

C14_Witness ==
    /\ pc_graph = "done"
    /\ pc_capture = "done"
    /\ \A i \in 1..Len(FramesOf(putA)) : FramesOf(putA)[i].data = "sharp"
    /\ times = ReferenceTimes
    /\ backlog >= 1


\* C15: once scoring has pulled FINISH from Channel A it puts FINISH on
\* Channel B and ends without another pull; and when no scoring raised, FINISH
\* is on Channel B only after scoring has pulled it from Channel A.
C15_ForwardsPulledSentinel ==
    /\ res = Sentinel => pc_analysis \in {"forward", "done"}
    /\ (pc_analysis = "forward" /\ ~ScoringRaised) =>
         /\ res = Sentinel
         /\ CountFinish(putB) = 0
    /\ pc_analysis = "done" =>
         /\ CountFinish(putB) = 1
         /\ ~ENABLED AnalysisStep
    /\ (CountFinish(putB) >= 1 /\ ~ScoringRaised) =>
         /\ res = Sentinel
         /\ CountFinish(putA) = 1
         /\ CountFinish(packet_queue) = 0

C15_Witness ==
    /\ pc_analysis = "done"
    /\ res = Sentinel
    /\ CountFinish(putB) = 1
    /\ Len(RecordsOf(putB)) >= 2


\* capture_images is inside a tick
InTick == pc_capture \in {"tick", "acquire", "tick_end", "sleep"}

\* capture_images has left its loop
LoopLeft == pc_capture \in {"finish", "done"}

\* C16 as stated: a tick starts only while the elapsed time is <= 5, so no
\* frame carries a timestamp later than start + 5, and FINISH is put only
\* after a loop test that found the elapsed time > 5.
C16_NoTimestampAfterDuration ==
    /\ \A i \in 1..Len(TickStarts) :
         TickStarts[i] <= capture_start_time + RunDuration
    /\ LoopLeft => loop_check_time - capture_start_time > RunDuration
    /\ CountFinish(putA) = 1 => LoopLeft

\* C16 amended: a tick is entered only after a loop test that read an elapsed
\* time <= 5, and its timestamp is read after that test; the loop is left,
\* and FINISH put, only after a test that read an elapsed time > 5, so a
\* test at exactly 5 still starts a tick.
C16_TickAdmittedByLoopTest ==
    /\ InTick => loop_check_time - capture_start_time <= RunDuration
    /\ pc_capture \in {"acquire", "tick_end", "sleep"} =>
         image_start_time >= loop_check_time
    /\ LoopLeft => loop_check_time - capture_start_time > RunDuration
    /\ CountFinish(putA) = 1 => LoopLeft

C16_Witness ==
    /\ pc_capture = "done"
    /\ Len(FrameTimes) >= 2
    /\ FrameTimes[Len(FrameTimes)] = capture_start_time + RunDuration


\* C17: the frame put on Channel A carries the clock reading made at the
\* start of its tick, every record put on Channel B carries the timestamp of
\* the frame it was computed from, and the timeline records that timestamp.
C17_TimestampCarriedUnchanged ==
    /\ pc_capture \in {"tick_end", "sleep"} =>
         FrameTimes[Len(FrameTimes)] = image_start_time
    /\ Len(RecordTimes) <= Len(FrameTimes)
    /\ \A i \in 1..Len(RecordTimes) : RecordTimes[i] = FrameTimes[i]
    /\ Len(times) <= Len(RecordTimes)
    /\ \A i \in 1..Len(times) : times[i] = RecordTimes[i]

C17_Witness ==
    /\ pc_graph = "done"
    /\ slow_ticks >= 1
    /\ Len(times) >= 2
    /\ times[Len(times)] < clock


\* C18: the end-of-stream test is true of FINISH and of no frame or record;
\* FINISH is never scored as a frame nor appended to the timeline, and no
\* frame or record ends a stage as if it were FINISH.
C18_OnlySentinelIsFinish ==
    /\ \A i \in 1..Len(putA) : IsFinish(putA[i]) <=> putA[i] = Sentinel
    /\ \A i \in 1..Len(putB) : IsFinish(putB[i]) <=> putB[i] = Sentinel
    /\ pc_analysis = "score" => res.type = "tuple"
    /\ (pc_analysis \in {"forward", "done"} /\ ~ScoringRaised) => res = Sentinel
    /\ Len(times) + Len(RecordsOf(metrics_queue)) = Len(RecordsOf(putB))
    /\ pc_graph \in {"plot", "done"} =>
         /\ Sentinel \notin {metrics_queue[i] : i \in 1..Len(metrics_queue)}
         /\ Len(times) = Len(RecordsOf(putB))

C18_Witness ==
    /\ pc_graph = "done"
    /\ pc_analysis = "done"
    /\ res = Sentinel
    /\ Len(times) >= 2
    /\ Len(FramesOf(putA)) = Len(times)


\* capture_images has been started and neither returned nor failed
CaptureAlive == pc_capture \notin {"unstarted", "done", "crashed"}

QueuedFrameTimes ==
    [i \in 1..Len(FramesOf(packet_queue)) |-> FramesOf(packet_queue)[i].time]

\* the timestamps of the records waiting on Channel B, oldest first
QueuedRecordTimes ==
    [i \in 1..Len(RecordsOf(metrics_queue)) |-> RecordsOf(metrics_queue)[i].time]

\* the frame compute_metrics has pulled and not yet scored (lines 82-87)
HeldFrameTimes == IF pc_analysis = "score" THEN <<res.time>> ELSE <<>>

\* the frame whose scoring raised (lines 88-90)
DroppedFrameTimes == IF dropped > 0 THEN <<res.time>> ELSE <<>>

\* C20: every frame capture has put is in exactly one place: the frames put,
\* in order, are the timeline's entries, then the records on Channel B, then
\* the frame scoring holds or dropped, then the frames on Channel A; scoring
\* holds at most one frame, and the five counts add up to the number put.
C20_FrameConservation ==
    /\ FrameTimes = times \o QueuedRecordTimes \o HeldFrameTimes
                          \o DroppedFrameTimes \o QueuedFrameTimes
    /\ Len(HeldFrameTimes) <= 1
    /\ dropped \in {0, 1}
    /\ ~(pc_analysis = "score" /\ dropped > 0)
    /\ Len(FramesOf(putA)) =
          Len(FramesOf(packet_queue)) + Len(HeldFrameTimes)
          + Len(RecordsOf(metrics_queue)) + Len(times) + dropped

C20_Witness ==
    /\ Len(FramesOf(packet_queue)) >= 1
    /\ pc_analysis = "score"
    /\ Len(RecordsOf(metrics_queue)) >= 1
    /\ Len(FramesOf(putA)) = 3

====
